---- MODULE Spec2Model ----
(***************************************************************************)
(* Model of helpers.py of GridBNB-USDT: the two tenacity-wrapped           *)
(* coroutines safe_fetch and send_telegram_message (Spec, SpecConc),       *)
(* LogConfig.setup_logger (SpecLogger), LogConfig.clean_old_logs           *)
(* (SpecClean) and debug_watcher (SpecWatcher).                            *)
(*                                                                         *)
(* One call is a small process.  Its steps are cut at the points where    *)
(* the coroutine suspends (await of the wrapped method / of               *)
(* bot.send_message, await of tenacity's sleep); everything between two   *)
(* suspension points runs without interruption, as asyncio runs it.       *)
(* The retry loop is tenacity's, configured by the decorator lines:       *)
(*   @retry(stop=stop_after_attempt(3),                                    *)
(*          wait=wait_exponential(multiplier=1, min=2, max=10))            *)
(* reraise is left at its default (False), retry at its default           *)
(* (retry_if_exception_type(Exception)).                                   *)
(***************************************************************************)
EXTENDS Integers, Sequences, FiniteSets, TLC

VARIABLES
    TELEGRAM_BOT_TOKEN,  \* config.TELEGRAM_BOT_TOKEN ("" when not configured)
    TELEGRAM_CHAT_ID,    \* config.TELEGRAM_CHAT_ID   ("" when not configured)
    fn,                  \* fn[c]: which wrapped coroutine call c runs
    title,               \* title[c]: argument of send_telegram_message
    content,             \* content[c]: argument of send_telegram_message
    pc,                  \* pc[c]: where call c stands
    attempt_number,      \* retry_state.attempt_number of call c
    full_message,        \* local variable full_message of the current attempt
    sends,               \* what bot.send_message was handed, in order
    trace,               \* observable events of call c, in order
    outcome,             \* what the caller of call c gets
    \* the root logger (LogConfig.setup_logger)
    handlers,            \* logging.getLogger().handlers
    level,               \* logging.getLogger().level
    next_id,             \* identity of the next handler object created
    log_last,            \* the latest operation on the root logger
    setup_calls,         \* calls of setup_logger so far
    \* the log directory (LogConfig.clean_old_logs)
    dir_exists,          \* os.path.exists(LOG_DIR)
    files,               \* files[name]: st_mtime of the file, or Absent
    files0,              \* the files when clean_old_logs was called
    now,                 \* local variable now
    todo,                \* names os.listdir returned, not visited yet
    clean_pc,            \* where clean_old_logs stands
    printed,             \* names print() reported a failed removal for
    \* a coroutine wrapped by debug_watcher
    w_pc,                \* where the wrapper stands
    w_calls,             \* calls of the wrapper so far
    w_clock,             \* time.time()
    w_start,             \* local variable start
    w_mem_before,        \* local variable mem_before
    w_trace,             \* observable events of the wrapper, in order
    w_outcome            \* what the caller of the wrapper gets

\* the variables of the calls of safe_fetch and send_telegram_message
callvars == <<TELEGRAM_BOT_TOKEN, TELEGRAM_CHAT_ID, fn, title, content, pc,
              attempt_number, full_message, sends, trace, outcome>>

loggervars == <<handlers, level, next_id, log_last, setup_calls>>

cleanvars == <<dir_exists, files, files0, now, todo, clean_pc, printed>>

watchervars == <<w_pc, w_calls, w_clock, w_start, w_mem_before, w_trace, w_outcome>>

\* the variables outside the calls of the two retry-wrapped coroutines
hostvars == <<loggervars, cleanvars, watchervars>>

vars == <<callvars, hostvars>>

------------------------------------------------------------------------------
(* Bounds of the model *)

\* rendered lengths max_length-Slack .. max_length+Slack are explored
Slack == 1

\* length of the short message body (well under the threshold)
ShortLen == 5

\* how far the long message body exceeds the threshold
LongExtra == 500

\* handler objects created in one behaviour of the root logger
MaxHandlerObjects == 6

\* what time.time() returns when clean_old_logs reads it
ClockNow == 200000

\* modification times up to AgeSlack seconds around the retention limit
AgeSlack == 1

\* calls of a coroutine wrapped by debug_watcher in one behaviour
MaxWatcherCalls == 2

------------------------------------------------------------------------------
(* Program constants *)

stop_max_attempt_number == 3
wait_multiplier == 1
wait_min == 2
wait_max == 10
wait_exp_base == 2
max_length == 4000

Calls == {1, 2}

\* LogConfig.BACKUP_DAYS
BACKUP_DAYS == 2
\* LogConfig.LOG_LEVEL = logging.INFO
LOG_LEVEL == 20
\* LogConfig.SINGLE_LOG
SINGLE_LOG == TRUE

------------------------------------------------------------------------------
(* Small helpers *)

Min2(a, b) == IF a < b THEN a ELSE b
Max2(a, b) == IF a > b THEN a ELSE b

RECURSIVE Pow(_, _)
Pow(b, n) == IF n = 0 THEN 1 ELSE b * Pow(b, n - 1)

------------------------------------------------------------------------------
(* Texts: a text is a sequence of one-character strings *)

Digits == <<"0", "1", "2", "3", "4", "5", "6", "7", "8", "9">>

\* a message body of n characters; character i is the digit i mod 10
Body(n) == [i \in 1..n |-> Digits[(i % 10) + 1]]

\* stands for the default value of the parameter title (four characters)
DefaultTitle == <<"J", "Y", "T", "Z">>

Titles == {DefaultTitle, <<"t">>}

\* characters that rendering adds around title and content: * * \n \n
RenderOverhead == 4

ContentLens ==
    {ShortLen, max_length + LongExtra}
    \cup ((max_length - RenderOverhead - Len(DefaultTitle) - Slack)
          .. (max_length - RenderOverhead - 1 + Slack))

Contents == {Body(n) : n \in ContentLens}

\* full_message = f"*{title}*\n\n{content}"
Render(t, c) == <<"*">> \o t \o <<"*", "\n", "\n">> \o c

Ellipsis == <<".", ".", ".">>

\* full_message[:max_length] + "..."
Truncated(msg) == SubSeq(msg, 1, Min2(Len(msg), max_length)) \o Ellipsis

\* variant: >= instead of >
TooLong_ge(msg) == Len(msg) >= max_length

\* the test of the size check: len(full_message) > max_length
TooLong(msg) == Len(msg) > max_length

\* the text handed to bot.send_message for a rendered message
SizePolicy(msg) == IF TooLong(msg) THEN Truncated(msg) ELSE msg

------------------------------------------------------------------------------
(* Configuration, errors and results *)

\* values config.py can give the two settings; "" stands for not configured
Tokens == {"", "tok"}
ChatIds == {"", "chat"}

\* variant: and instead of or
ConfigMissing_and(token, chat) == token = "" /\ chat = ""

\* if not TELEGRAM_BOT_TOKEN or not TELEGRAM_CHAT_ID
ConfigMissing(token, chat) == token = "" \/ chat = ""

\* exception classes an attempt can raise; all are subclasses of Exception
TelegramErrors == {"NetworkError"}
OtherErrors == {"RuntimeError"}
Errors == TelegramErrors \cup OtherErrors

\* asyncio.CancelledError: a BaseException, not a subclass of Exception
CancelledError == "CancelledError"

\* except Exception: the classes the clause catches
IsException(e) == e \in Errors

\* except telegram.error.TelegramError
IsTelegramError(e) == e \in TelegramErrors

\* values the method wrapped by safe_fetch can return
Results == {"r1", "r2"}

Functions == {"safe_fetch", "send_telegram_message"}

------------------------------------------------------------------------------
(* Observable events *)

Ev(e, lvl, m, k) == [ev |-> e, level |-> lvl, msg |-> m, n |-> k]

\* the wrapped coroutine body is entered for attempt k
EvInvoke(k) == Ev("invoke", "-", "", k)
\* safe_fetch calls method(*args, **kwargs)
EvMethod(k) == Ev("method", "-", "", k)
\* bot.send_message is called
EvSend(k) == Ev("send", "-", "", k)
\* the awaited operation returned r / raised e in attempt k
EvResult(r, k) == Ev("result", "-", r, k)
EvError(e, k) == Ev("error", "-", e, k)
\* logging.error / logging.warning / logging.info
EvLog(lvl, m, k) == Ev("log", lvl, m, k)
\* tenacity sleeps secs seconds
EvSleep(secs) == Ev("sleep", "-", "", secs)
\* the sleep before attempt k is over
EvWake(k) == Ev("wake", "-", "", k)
\* the task is cancelled at the suspension point w ("await" of the wrapped
\* operation of attempt k, or "sleep" before attempt k)
EvCancel(w, k) == Ev("cancel", "-", w, k)

Count(tr, P(_)) == Len(SelectSeq(tr, P))

IsInvoke(e) == e.ev = "invoke"
IsMethod(e) == e.ev = "method"
IsSend(e) == e.ev = "send"
IsSleep(e) == e.ev = "sleep"
IsErrorEv(e) == e.ev = "error"
IsResultEv(e) == e.ev = "result"
IsWake(e) == e.ev = "wake"
IsCancel(e) == e.ev = "cancel"
IsErrorLog(e) == e.ev = "log" /\ e.level = "ERROR"
IsFailureLog(e) == IsErrorLog(e) /\ e.msg # "not_configured"
IsWarningLog(e) == e.ev = "log" /\ e.level = "WARNING"
IsSuccessLog(e) == e.ev = "log" /\ e.level = "INFO" /\ e.msg = "sent_ok"

------------------------------------------------------------------------------
(* tenacity: the policy of the two decorators *)

\* variant: the bound is tested with > instead of >=
stop_after_attempt_gt(n) == n > stop_max_attempt_number

\* stop_after_attempt(3): retry_state.attempt_number >= max_attempt_number
stop_after_attempt(n) == n >= stop_max_attempt_number

\* variant: the exponent is attempt_number instead of attempt_number - 1
wait_exponential_from_one(n) ==
    Max2(Max2(0, wait_min),
         Min2(wait_multiplier * Pow(wait_exp_base, n), wait_max))

\* wait_exponential(multiplier=1, min=2, max=10), exp_base 2:
\*   exp = exp_base ** (attempt_number - 1); result = multiplier * exp
\*   max(max(0, min), min(result, max))
wait_exponential(n) ==
    Max2(Max2(0, wait_min),
         Min2(wait_multiplier * Pow(wait_exp_base, n - 1), wait_max))

\* what the caller gets
Pending == [kind |-> "pending", value |-> "", exc |-> "", last |-> ""]
Returned(v) == [kind |-> "return", value |-> v, exc |-> "", last |-> ""]
\* raise RetryError(fut): the last attempt's exception is kept inside
RetryError(e) == [kind |-> "raise", value |-> "", exc |-> "RetryError", last |-> e]
\* reraise: the attempt's own exception
Reraised(e) == [kind |-> "raise", value |-> "", exc |-> e, last |-> e]

\* reraise=False (the default): exhaustion raises RetryError
Exhausted(e) == RetryError(e)

------------------------------------------------------------------------------
(* LogConfig.setup_logger: the root logger *)

\* the levels of the logging module: NOTSET, DEBUG, INFO, WARNING, ERROR, CRITICAL
Levels == {0, 10, 20, 30, 40, 50}

\* the level of the root logger when the logging module is imported: WARNING
RootDefaultLevel == 30

\* classes of handlers other code of the process may install
OtherHandlerClasses == {"NullHandler", "StreamHandler", "TimedRotatingFileHandler"}

\* a handler object: its class, its identity, and backupCount (0 when the
\* class has none)
Handler(cls, id, backups) == [cls |-> cls, id |-> id, backupCount |-> backups]

\* Logger.removeHandler: if hdlr in self.handlers: self.handlers.remove(hdlr)
removeHandler(hs, h) == SelectSeq(hs, LAMBDA x : x # h)

\* Logger.addHandler: if not (hdlr in self.handlers): self.handlers.append(hdlr)
addHandler(hs, h) == IF \E i \in DOMAIN hs : hs[i] = h THEN hs ELSE Append(hs, h)

\* variant: the loop runs over logger.handlers itself, not over a copy:
\* every removal shifts the list under the iterator, every second handler
\* is skipped
RemoveEach_live(hs, copy) == [j \in 1..(Len(hs) \div 2) |-> hs[2 * j]]

\* for handler in logger.handlers[:]: logger.removeHandler(handler)
\* hs is the list of the logger, copy the rest of the copy iterated over
RECURSIVE RemoveEach(_, _)
RemoveEach(hs, copy) ==
    IF copy = << >> THEN hs
    ELSE RemoveEach(removeHandler(hs, Head(copy)), Tail(copy))

\* the root logger of a process that has not configured logging
LoggerInit ==
    /\ handlers = << >>
    /\ level = RootDefaultLevel
    /\ next_id = 1
    /\ log_last = "none"
    /\ setup_calls = 0

\* LogConfig.setup_logger()
setup_logger ==
    /\ next_id + 1 <= MaxHandlerObjects
    /\ level' = LOG_LEVEL
    /\ LET file_handler == Handler("TimedRotatingFileHandler", next_id, BACKUP_DAYS)
           console_handler == Handler("StreamHandler", next_id + 1, 0)
       IN handlers' = addHandler(addHandler(RemoveEach(handlers, handlers),
                                            file_handler),
                                 console_handler)
    /\ next_id' = next_id + 2
    /\ log_last' = "setup_logger"
    /\ setup_calls' = setup_calls + 1
    /\ UNCHANGED <<callvars, cleanvars, watchervars>>

\* other code of the process installs a handler on the root logger
OtherAddHandler(cls) ==
    /\ next_id <= MaxHandlerObjects
    /\ handlers' = addHandler(handlers, Handler(cls, next_id, 0))
    /\ next_id' = next_id + 1
    /\ log_last' = "addHandler"
    /\ UNCHANGED <<level, setup_calls, callvars, cleanvars, watchervars>>

\* other code of the process sets the level of the root logger
OtherSetLevel(l) ==
    /\ level # l
    /\ level' = l
    /\ log_last' = "setLevel"
    /\ UNCHANGED <<handlers, next_id, setup_calls, callvars, cleanvars, watchervars>>

NextLogger ==
    \/ setup_logger
    \/ \E cls \in OtherHandlerClasses : OtherAddHandler(cls)
    \/ \E l \in Levels : OtherSetLevel(l)

------------------------------------------------------------------------------
(* LogConfig.clean_old_logs: the log directory *)

LogFile == "trading_system.log"

\* names that can be in LOG_DIR: the log, a rotated backup, another file
FileNames == {LogFile, "trading_system.log.2025-01-01", "main.py"}

\* files[name] of a name that is not in the directory
Absent == 0 - 1

SecondsPerDay == 86400

Mtimes ==
    {ClockNow - BACKUP_DAYS * SecondsPerDay + d : d \in (0 - AgeSlack)..AgeSlack}
    \cup {ClockNow}

\* variant: <= instead of <
IsOld_le(mtime, t) == mtime <= t - BACKUP_DAYS * SecondsPerDay

\* os.stat(path).st_mtime < now - LogConfig.BACKUP_DAYS * 86400
IsOld(mtime, t) == mtime < t - BACKUP_DAYS * SecondsPerDay

\* if LogConfig.SINGLE_LOG and fname != 'trading_system.log': continue
SkipName(fname) == SINGLE_LOG /\ fname # LogFile

\* the orders os.listdir can return the names of fs in
ListDir(fs) ==
    LET present == {n \in FileNames : fs[n] # Absent}
    IN {q \in [1..Cardinality(present) -> present] :
           \A i, j \in DOMAIN q : i # j => q[i] # q[j]}

\* a directory that clean_old_logs has not been called on
CleanIdle ==
    /\ dir_exists = TRUE
    /\ files = [n \in FileNames |-> Absent]
    /\ files0 = files
    /\ now = 0
    /\ todo = << >>
    /\ clean_pc = "start"
    /\ printed = << >>

\* clean_old_logs is called on a directory in any state
CleanInit ==
    /\ dir_exists \in BOOLEAN
    /\ files \in [FileNames -> Mtimes \cup {Absent}]
    /\ ~dir_exists => \A n \in FileNames : files[n] = Absent
    /\ files0 = files
    /\ now = 0
    /\ todo = << >>
    /\ clean_pc = "start"
    /\ printed = << >>

\* if not os.path.exists(LogConfig.LOG_DIR): return
CleanNoDir ==
    /\ clean_pc = "start"
    /\ ~dir_exists
    /\ clean_pc' = "returned"
    /\ UNCHANGED <<dir_exists, files, files0, now, todo, printed,
                   callvars, loggervars, watchervars>>

\* now = time.time(); for fname in os.listdir(LogConfig.LOG_DIR)
CleanListDir ==
    /\ clean_pc = "start"
    /\ dir_exists
    /\ now' = ClockNow
    /\ todo' \in ListDir(files)
    /\ clean_pc' = "loop"
    /\ UNCHANGED <<dir_exists, files, files0, printed,
                   callvars, loggervars, watchervars>>

\* one pass of the loop: the name is skipped (continue)
CleanSkip ==
    /\ clean_pc = "loop"
    /\ todo # << >>
    /\ SkipName(Head(todo))
    /\ todo' = Tail(todo)
    /\ UNCHANGED <<dir_exists, files, files0, now, clean_pc, printed,
                   callvars, loggervars, watchervars>>

\* one pass of the loop: the file is not old enough
CleanKeep ==
    /\ clean_pc = "loop"
    /\ todo # << >>
    /\ ~SkipName(Head(todo))
    /\ ~IsOld(files[Head(todo)], now)
    /\ todo' = Tail(todo)
    /\ UNCHANGED <<dir_exists, files, files0, now, clean_pc, printed,
                   callvars, loggervars, watchervars>>

\* one pass of the loop: os.remove(path) succeeds
CleanRemove ==
    /\ clean_pc = "loop"
    /\ todo # << >>
    /\ ~SkipName(Head(todo))
    /\ IsOld(files[Head(todo)], now)
    /\ files' = [files EXCEPT ![Head(todo)] = Absent]
    /\ todo' = Tail(todo)
    /\ UNCHANGED <<dir_exists, files0, now, clean_pc, printed,
                   callvars, loggervars, watchervars>>

\* one pass of the loop: os.remove(path) raises; except Exception: print(...)
CleanRemoveFails ==
    /\ clean_pc = "loop"
    /\ todo # << >>
    /\ ~SkipName(Head(todo))
    /\ IsOld(files[Head(todo)], now)
    /\ printed' = Append(printed, Head(todo))
    /\ todo' = Tail(todo)
    /\ UNCHANGED <<dir_exists, files, files0, now, clean_pc,
                   callvars, loggervars, watchervars>>

\* the loop is over: clean_old_logs returns
CleanEnd ==
    /\ clean_pc = "loop"
    /\ todo = << >>
    /\ clean_pc' = "returned"
    /\ UNCHANGED <<dir_exists, files, files0, now, todo, printed,
                   callvars, loggervars, watchervars>>

NextClean ==
    \/ CleanNoDir
    \/ CleanListDir
    \/ CleanSkip
    \/ CleanKeep
    \/ CleanRemove
    \/ CleanRemoveFails
    \/ CleanEnd

------------------------------------------------------------------------------
(* debug_watcher: the wrapper around a coroutine func *)

\* an event of the wrapper: kind, message or value, call number, and the
\* two figures of the completion log (0 elsewhere)
WEv(e, m, k, cost, mem) == [ev |-> e, msg |-> m, n |-> k, cost |-> cost, mem |-> mem]

\* readings of psutil.virtual_memory().used
MemReadings == {100, 101}

\* seconds func can take
Durations == {0, 1}

\* what func can raise: an Exception or a CancelledError
FuncErrors == Errors \cup {CancelledError}

WatcherInit ==
    /\ w_pc = "idle"
    /\ w_calls = 0
    /\ w_clock = 0
    /\ w_start = 0
    /\ w_mem_before = 0
    /\ w_trace = << >>
    /\ w_outcome = Pending

\* wrapper(*args, **kwargs) up to await func(...): start, mem_before,
\* logging.debug, call of func
WatcherCall(m) ==
    /\ w_pc = "idle"
    /\ w_calls < MaxWatcherCalls
    /\ w_calls' = w_calls + 1
    /\ w_start' = w_clock
    /\ w_mem_before' = m
    /\ w_trace' = w_trace \o <<WEv("debug_start", "", w_calls + 1, 0, 0),
                               WEv("func", "", w_calls + 1, 0, 0)>>
    /\ w_outcome' = Pending
    /\ w_pc' = "awaiting"
    /\ UNCHANGED <<w_clock, callvars, loggervars, cleanvars>>

\* func returned r after d seconds: finally logs, then return result
WatcherFuncReturns(r, d, m) ==
    /\ w_pc = "awaiting"
    /\ w_clock' = w_clock + d
    /\ w_trace' = w_trace \o <<WEv("result", r, w_calls, 0, 0),
                               WEv("debug_done", "", w_calls,
                                   (w_clock + d) - w_start, m - w_mem_before)>>
    /\ w_outcome' = Returned(r)
    /\ w_pc' = "idle"
    /\ UNCHANGED <<w_calls, w_start, w_mem_before, callvars, loggervars, cleanvars>>

\* variant: the finally block returns, which discards the exception
WatcherFuncRaises_swallow(e, d, m) ==
    /\ w_pc = "awaiting"
    /\ w_clock' = w_clock + d
    /\ w_trace' = w_trace \o <<WEv("error", e, w_calls, 0, 0),
                               WEv("debug_done", "", w_calls,
                                   (w_clock + d) - w_start, m - w_mem_before)>>
    /\ w_outcome' = Returned("None")
    /\ w_pc' = "idle"
    /\ UNCHANGED <<w_calls, w_start, w_mem_before, callvars, loggervars, cleanvars>>

\* func raised e after d seconds: finally logs, the exception goes on
WatcherFuncRaises(e, d, m) ==
    /\ w_pc = "awaiting"
    /\ w_clock' = w_clock + d
    /\ w_trace' = w_trace \o <<WEv("error", e, w_calls, 0, 0),
                               WEv("debug_done", "", w_calls,
                                   (w_clock + d) - w_start, m - w_mem_before)>>
    /\ w_outcome' = Reraised(e)
    /\ w_pc' = "idle"
    /\ UNCHANGED <<w_calls, w_start, w_mem_before, callvars, loggervars, cleanvars>>

NextWatcher ==
    \/ \E m \in MemReadings : WatcherCall(m)
    \/ \E r \in Results, d \in Durations, m \in MemReadings :
           WatcherFuncReturns(r, d, m)
    \/ \E e \in FuncErrors, d \in Durations, m \in MemReadings :
           WatcherFuncRaises(e, d, m)

------------------------------------------------------------------------------
(* State after the call has been made and before its first attempt *)

NoText == << >>

\* the arguments a call of function f can be made with
ArgsOf(f) ==
    IF f = "send_telegram_message"
    THEN {<<t, c>> : t \in Titles, c \in Contents}
    ELSE {<<NoText, NoText>>}

\* in Spec one call is in progress; the second slot is not used
Active == {1}

Init ==
    /\ TELEGRAM_BOT_TOKEN \in Tokens
    /\ TELEGRAM_CHAT_ID \in ChatIds
    /\ fn \in [Calls -> Functions]
    /\ \A c \in Calls \ Active : fn[c] = "safe_fetch"
    /\ \E a \in [Calls -> UNION {ArgsOf(f) : f \in Functions}] :
          /\ \A c \in Calls : a[c] \in ArgsOf(fn[c])
          /\ \A c \in Calls \ Active : a[c] = <<NoText, NoText>>
          /\ title = [c \in Calls |-> a[c][1]]
          /\ content = [c \in Calls |-> a[c][2]]
    /\ pc = [c \in Calls |-> IF c \in Active THEN "attempt" ELSE "unused"]
    /\ attempt_number = [c \in Calls |-> 1]
    /\ full_message = [c \in Calls |-> NoText]
    /\ sends = [c \in Calls |-> << >>]
    /\ trace = [c \in Calls |-> << >>]
    /\ outcome = [c \in Calls |-> Pending]
    /\ LoggerInit
    /\ CleanIdle
    /\ WatcherInit

\* two calls in progress at the same time, each of either function; the
\* messages are short ones
InitConc ==
    /\ TELEGRAM_BOT_TOKEN \in Tokens
    /\ TELEGRAM_CHAT_ID \in ChatIds
    /\ fn \in [Calls -> Functions]
    /\ title = [c \in Calls |->
                   IF fn[c] = "send_telegram_message" THEN DefaultTitle ELSE NoText]
    /\ content = [c \in Calls |->
                     IF fn[c] = "send_telegram_message" THEN Body(ShortLen) ELSE NoText]
    /\ pc = [c \in Calls |-> "attempt"]
    /\ attempt_number = [c \in Calls |-> 1]
    /\ full_message = [c \in Calls |-> NoText]
    /\ sends = [c \in Calls |-> << >>]
    /\ trace = [c \in Calls |-> << >>]
    /\ outcome = [c \in Calls |-> Pending]
    /\ LoggerInit
    /\ CleanIdle
    /\ WatcherInit

\* no call of safe_fetch or send_telegram_message is in progress
CallsIdle ==
    /\ TELEGRAM_BOT_TOKEN = "tok"
    /\ TELEGRAM_CHAT_ID = "chat"
    /\ fn = [c \in Calls |-> "safe_fetch"]
    /\ title = [c \in Calls |-> NoText]
    /\ content = [c \in Calls |-> NoText]
    /\ pc = [c \in Calls |-> "unused"]
    /\ attempt_number = [c \in Calls |-> 1]
    /\ full_message = [c \in Calls |-> NoText]
    /\ sends = [c \in Calls |-> << >>]
    /\ trace = [c \in Calls |-> << >>]
    /\ outcome = [c \in Calls |-> Pending]

InitLogger == CallsIdle /\ LoggerInit /\ CleanIdle /\ WatcherInit

InitClean == CallsIdle /\ LoggerInit /\ CleanInit /\ WatcherInit

InitWatcher == CallsIdle /\ LoggerInit /\ CleanIdle /\ WatcherInit

------------------------------------------------------------------------------
(* tenacity's loop around one attempt *)

\* The attempt of call c returned v: iter() finds no exception and returns
\* the result to the caller.
AttemptReturned(c, v, tr) ==
    /\ pc' = [pc EXCEPT ![c] = "returned"]
    /\ outcome' = [outcome EXCEPT ![c] = Returned(v)]
    /\ trace' = [trace EXCEPT ![c] = tr]
    /\ UNCHANGED attempt_number

\* variant: one attempt counter is shared by all calls in progress
AttemptRaised_shared(c, e, tr) ==
    IF stop_after_attempt(attempt_number[c])
    THEN /\ pc' = [pc EXCEPT ![c] = "raised"]
         /\ outcome' = [outcome EXCEPT ![c] = Exhausted(e)]
         /\ trace' = [trace EXCEPT ![c] = tr]
         /\ UNCHANGED attempt_number
    ELSE /\ pc' = [pc EXCEPT ![c] = "sleeping"]
         /\ attempt_number' = [d \in Calls |-> attempt_number[d] + 1]
         /\ trace' = [trace EXCEPT ![c] =
                         Append(tr, EvSleep(wait_exponential(attempt_number[c])))]
         /\ UNCHANGED outcome

\* variant: the loop does not wait between attempts
AttemptRaised_nowait(c, e, tr) ==
    IF stop_after_attempt(attempt_number[c])
    THEN /\ pc' = [pc EXCEPT ![c] = "raised"]
         /\ outcome' = [outcome EXCEPT ![c] = Exhausted(e)]
         /\ trace' = [trace EXCEPT ![c] = tr]
         /\ UNCHANGED attempt_number
    ELSE /\ pc' = [pc EXCEPT ![c] = "attempt"]
         /\ attempt_number' = [attempt_number EXCEPT ![c] = @ + 1]
         /\ trace' = [trace EXCEPT ![c] = tr]
         /\ UNCHANGED outcome

\* The attempt of call c raised the Exception e (tr is the trace so far):
\* stop reached -> raise RetryError; otherwise DoSleep(wait(retry_state)),
\* prepare_for_next_attempt() and await sleep.
AttemptRaised(c, e, tr) ==
    IF stop_after_attempt(attempt_number[c])
    THEN /\ pc' = [pc EXCEPT ![c] = "raised"]
         /\ outcome' = [outcome EXCEPT ![c] = Exhausted(e)]
         /\ trace' = [trace EXCEPT ![c] = tr]
         /\ UNCHANGED attempt_number
    ELSE /\ pc' = [pc EXCEPT ![c] = "sleeping"]
         /\ attempt_number' = [attempt_number EXCEPT ![c] = @ + 1]
         /\ trace' = [trace EXCEPT ![c] =
                         Append(tr, EvSleep(wait_exponential(attempt_number[c])))]
         /\ UNCHANGED outcome

\* variant: every BaseException is retried
retry_if_exception_type_any(e) == TRUE

\* retry=retry_if_exception_type(): isinstance(exception, Exception)
retry_if_exception_type(e) == IsException(e)

\* The attempt of call c ended with the exception e, of any class: an
\* exception the retry predicate rejects is raised to the caller as it is
\* (iter() returns fut.result()).
AttemptEnded(c, e, tr) ==
    IF retry_if_exception_type(e)
    THEN AttemptRaised(c, e, tr)
    ELSE /\ pc' = [pc EXCEPT ![c] = "cancelled"]
         /\ outcome' = [outcome EXCEPT ![c] = Reraised(e)]
         /\ trace' = [trace EXCEPT ![c] = tr]
         /\ UNCHANGED attempt_number

\* the backoff sleep of call c is over: the loop makes the next attempt
SleepElapsed(c) ==
    /\ pc[c] = "sleeping"
    /\ pc' = [pc EXCEPT ![c] = "attempt"]
    /\ trace' = [trace EXCEPT ![c] = Append(@, EvWake(attempt_number[c]))]
    /\ UNCHANGED <<hostvars, TELEGRAM_BOT_TOKEN, TELEGRAM_CHAT_ID, fn, title, content,
                   attempt_number, full_message, sends, outcome>>

\* the task of call c is cancelled during await self.sleep(...): the
\* CancelledError is raised in the retry loop, outside any attempt
SleepCancelled(c) ==
    /\ pc[c] = "sleeping"
    /\ pc' = [pc EXCEPT ![c] = "cancelled"]
    /\ outcome' = [outcome EXCEPT ![c] = Reraised(CancelledError)]
    /\ trace' = [trace EXCEPT ![c] = Append(@, EvCancel("sleep", attempt_number[c]))]
    /\ UNCHANGED <<hostvars, TELEGRAM_BOT_TOKEN, TELEGRAM_CHAT_ID, fn, title, content,
                   attempt_number, full_message, sends>>

------------------------------------------------------------------------------
(* safe_fetch *)

\* try: return await method(*args, **kwargs)  -- up to the await
SafeFetchAttempt(c) ==
    /\ pc[c] = "attempt"
    /\ fn[c] = "safe_fetch"
    /\ trace' = [trace EXCEPT ![c] =
                    @ \o <<EvInvoke(attempt_number[c]), EvMethod(attempt_number[c])>>]
    /\ pc' = [pc EXCEPT ![c] = "awaiting"]
    /\ UNCHANGED <<hostvars, TELEGRAM_BOT_TOKEN, TELEGRAM_CHAT_ID, fn, title, content,
                   attempt_number, full_message, sends, outcome>>

\* variant: the return statement is missing, the coroutine returns None
SafeFetchReturns_none(c, r) ==
    /\ pc[c] = "awaiting"
    /\ fn[c] = "safe_fetch"
    /\ AttemptReturned(c, "None", Append(trace[c], EvResult(r, attempt_number[c])))
    /\ UNCHANGED <<hostvars, TELEGRAM_BOT_TOKEN, TELEGRAM_CHAT_ID, fn, title, content,
                   full_message, sends>>

\* method returned r: safe_fetch returns it
SafeFetchReturns(c, r) ==
    /\ pc[c] = "awaiting"
    /\ fn[c] = "safe_fetch"
    /\ AttemptReturned(c, r, Append(trace[c], EvResult(r, attempt_number[c])))
    /\ UNCHANGED <<hostvars, TELEGRAM_BOT_TOKEN, TELEGRAM_CHAT_ID, fn, title, content,
                   full_message, sends>>

\* the trace after the except clause of safe_fetch: logging.error, then raise
SafeFetchExcept(tr, e, k) == Append(tr, EvLog("ERROR", "request_failed", k))

\* method raised e: except Exception: logging.error(...); raise
SafeFetchRaises(c, e) ==
    /\ pc[c] = "awaiting"
    /\ fn[c] = "safe_fetch"
    /\ AttemptEnded(c, e,
          SafeFetchExcept(Append(trace[c], EvError(e, attempt_number[c])),
                          e, attempt_number[c]))
    /\ UNCHANGED <<hostvars, TELEGRAM_BOT_TOKEN, TELEGRAM_CHAT_ID, fn, title, content,
                   full_message, sends>>

\* the task is cancelled during await method(...): the except clause runs
\* only for an Exception; the CancelledError leaves safe_fetch
SafeFetchCancelled(c) ==
    /\ pc[c] = "awaiting"
    /\ fn[c] = "safe_fetch"
    /\ LET k == attempt_number[c]
           tr == Append(trace[c], EvCancel("await", k))
       IN AttemptEnded(c, CancelledError,
             IF IsException(CancelledError)
             THEN SafeFetchExcept(tr, CancelledError, k) ELSE tr)
    /\ UNCHANGED <<hostvars, TELEGRAM_BOT_TOKEN, TELEGRAM_CHAT_ID, fn, title, content,
                   full_message, sends>>

------------------------------------------------------------------------------
(* send_telegram_message *)

\* what bot.send_message is called with
SendArgs(chat, text) == [chat_id |-> chat, text |-> text, parse_mode |-> "Markdown"]

\* variant: the size check warns in the first attempt only
SizeCheckLogs_first(msg, k) ==
    <<EvLog("INFO", "sending", k)>>
    \o (IF TooLong(msg) /\ k = 1
        THEN <<EvLog("WARNING", "too_long", Len(msg))>> ELSE << >>)

\* the log entries of the try block before bot.send_message, for the
\* rendered message msg: logging.info, and logging.warning when too long
SizeCheckLogs(msg, k) ==
    <<EvLog("INFO", "sending", k)>>
    \o (IF TooLong(msg) THEN <<EvLog("WARNING", "too_long", Len(msg))>> ELSE << >>)

\* configuration missing: logging.error(...); return
TgNotConfigured(c) ==
    /\ pc[c] = "attempt"
    /\ fn[c] = "send_telegram_message"
    /\ ConfigMissing(TELEGRAM_BOT_TOKEN, TELEGRAM_CHAT_ID)
    /\ AttemptReturned(c, "None",
          trace[c] \o <<EvInvoke(attempt_number[c]),
                        EvLog("ERROR", "not_configured", attempt_number[c])>>)
    /\ UNCHANGED <<hostvars, TELEGRAM_BOT_TOKEN, TELEGRAM_CHAT_ID, fn, title, content,
                   full_message, sends>>

\* variant: the attempt number is appended to the content before rendering
TgAttempt_numbered(c) ==
    /\ pc[c] = "attempt"
    /\ fn[c] = "send_telegram_message"
    /\ ~ConfigMissing(TELEGRAM_BOT_TOKEN, TELEGRAM_CHAT_ID)
    /\ LET k == attempt_number[c]
           rendered == Render(title[c], content[c] \o <<Digits[k + 1]>>)
       IN /\ full_message' = [full_message EXCEPT ![c] = SizePolicy(rendered)]
          /\ trace' = [trace EXCEPT ![c] =
                          @ \o <<EvInvoke(k)>> \o SizeCheckLogs(rendered, k)
                            \o <<EvSend(k)>>]
          /\ sends' = [sends EXCEPT ![c] =
                          Append(@, SendArgs(TELEGRAM_CHAT_ID, SizePolicy(rendered)))]
    /\ pc' = [pc EXCEPT ![c] = "awaiting"]
    /\ UNCHANGED <<hostvars, TELEGRAM_BOT_TOKEN, TELEGRAM_CHAT_ID, fn, title, content,
                   attempt_number, outcome>>

\* the body of one attempt up to await bot.send_message(...):
\* render, log, size check and truncation, call of the transport
TgAttempt(c) ==
    /\ pc[c] = "attempt"
    /\ fn[c] = "send_telegram_message"
    /\ ~ConfigMissing(TELEGRAM_BOT_TOKEN, TELEGRAM_CHAT_ID)
    /\ LET rendered == Render(title[c], content[c])
           k == attempt_number[c]
       IN /\ full_message' = [full_message EXCEPT ![c] = SizePolicy(rendered)]
          /\ trace' = [trace EXCEPT ![c] =
                          @ \o <<EvInvoke(k)>> \o SizeCheckLogs(rendered, k)
                            \o <<EvSend(k)>>]
          /\ sends' = [sends EXCEPT ![c] =
                          Append(@, SendArgs(TELEGRAM_CHAT_ID, SizePolicy(rendered)))]
    /\ pc' = [pc EXCEPT ![c] = "awaiting"]
    /\ UNCHANGED <<hostvars, TELEGRAM_BOT_TOKEN, TELEGRAM_CHAT_ID, fn, title, content,
                   attempt_number, outcome>>

\* bot.send_message returned: logging.info(...); the coroutine returns None
TgSendReturns(c) ==
    /\ pc[c] = "awaiting"
    /\ fn[c] = "send_telegram_message"
    /\ AttemptReturned(c, "None",
          trace[c] \o <<EvResult("None", attempt_number[c]),
                        EvLog("INFO", "sent_ok", attempt_number[c])>>)
    /\ UNCHANGED <<hostvars, TELEGRAM_BOT_TOKEN, TELEGRAM_CHAT_ID, fn, title, content,
                   full_message, sends>>

\* variant: the success message is logged in every case, as in a finally
TgExcept_finally(tr, e, k) ==
    IF IsTelegramError(e)
    THEN tr \o <<EvLog("ERROR", "telegram_failed", k), EvLog("INFO", "sent_ok", k)>>
    ELSE tr \o <<EvLog("ERROR", "unknown_error", k), EvLog("INFO", "sent_ok", k)>>

\* variant: a TelegramError is logged by both except clauses
TgExcept_both(tr, e, k) ==
    IF IsTelegramError(e)
    THEN tr \o <<EvLog("ERROR", "telegram_failed", k),
                 EvLog("ERROR", "unknown_error", k)>>
    ELSE Append(tr, EvLog("ERROR", "unknown_error", k))

\* the trace after the except clauses of send_telegram_message for the
\* exception e: the first clause that matches logs, then raise
TgExcept(tr, e, k) ==
    IF IsTelegramError(e)
    THEN Append(tr, EvLog("ERROR", "telegram_failed", k))
    ELSE Append(tr, EvLog("ERROR", "unknown_error", k))

\* variant: the second except clause logs and does not raise again
TgSendRaises_swallow(c, e) ==
    /\ pc[c] = "awaiting"
    /\ fn[c] = "send_telegram_message"
    /\ LET tr == TgExcept(Append(trace[c], EvError(e, attempt_number[c])),
                          e, attempt_number[c])
       IN IF IsTelegramError(e)
          THEN AttemptEnded(c, e, tr)
          ELSE AttemptReturned(c, "None", tr)
    /\ UNCHANGED <<hostvars, TELEGRAM_BOT_TOKEN, TELEGRAM_CHAT_ID, fn, title, content,
                   full_message, sends>>

\* bot.send_message raised e
TgSendRaises(c, e) ==
    /\ pc[c] = "awaiting"
    /\ fn[c] = "send_telegram_message"
    /\ AttemptEnded(c, e,
          TgExcept(Append(trace[c], EvError(e, attempt_number[c])),
                   e, attempt_number[c]))
    /\ UNCHANGED <<hostvars, TELEGRAM_BOT_TOKEN, TELEGRAM_CHAT_ID, fn, title, content,
                   full_message, sends>>

\* the task is cancelled during await bot.send_message(...): neither
\* except clause matches a CancelledError
TgSendCancelled(c) ==
    /\ pc[c] = "awaiting"
    /\ fn[c] = "send_telegram_message"
    /\ LET k == attempt_number[c]
           tr == Append(trace[c], EvCancel("await", k))
       IN AttemptEnded(c, CancelledError,
             IF IsTelegramError(CancelledError) \/ IsException(CancelledError)
             THEN TgExcept(tr, CancelledError, k) ELSE tr)
    /\ UNCHANGED <<hostvars, TELEGRAM_BOT_TOKEN, TELEGRAM_CHAT_ID, fn, title, content,
                   full_message, sends>>

------------------------------------------------------------------------------

Next ==
    \E c \in Calls :
        \/ SafeFetchAttempt(c)
        \/ \E r \in Results : SafeFetchReturns(c, r)
        \/ \E e \in Errors : SafeFetchRaises(c, e)
        \/ TgNotConfigured(c)
        \/ TgAttempt(c)
        \/ TgSendReturns(c)
        \/ \E e \in Errors : TgSendRaises(c, e)
        \/ SleepElapsed(c)
        \/ SafeFetchCancelled(c)
        \/ TgSendCancelled(c)
        \/ SleepCancelled(c)

Spec == Init /\ [][Next]_vars

\* two concurrent calls, interleaved at their suspension points
SpecConc == InitConc /\ [][Next]_vars

\* the root logger: setup_logger among other code that configures logging
SpecLogger == InitLogger /\ [][NextLogger]_vars

\* one call of clean_old_logs
SpecClean == InitClean /\ [][NextClean]_vars

\* calls of a coroutine wrapped by debug_watcher
SpecWatcher == InitWatcher /\ [][NextWatcher]_vars

------------------------------------------------------------------------------
(* Quantities read off the trace of a call *)

Invocations(c) == Count(trace[c], IsInvoke)
MethodCalls(c) == Count(trace[c], IsMethod)
SendCalls(c) == Count(trace[c], IsSend)
Failures(c) == Count(trace[c], IsErrorEv)
Delays(c) == SelectSeq(trace[c], IsSleep)
ErrorLogs(c) == Count(trace[c], IsErrorLog)
Warnings(c) == Count(trace[c], IsWarningLog)
SuccessLogs(c) == Count(trace[c], IsSuccessLog)

\* the exception raised by the latest failed attempt of call c
LastError(c) ==
    LET errs == SelectSeq(trace[c], IsErrorEv) IN errs[Len(errs)].msg

------------------------------------------------------------------------------
(* C1 *)

\* C1: in one call of safe_fetch or send_telegram_message the wrapped
\* coroutine is entered at least once before any backoff delay and never
\* more than 3 times; when every attempt fails it is entered exactly 3
\* times with exactly 2 backoff delays, and nothing is attempted after the
\* third failure.
C1_AttemptBound ==
    \A c \in Calls :
        /\ Invocations(c) <= 3
        /\ Failures(c) <= 3
        /\ \A i \in DOMAIN trace[c] :
              IsSleep(trace[c][i]) => \E j \in 1..(i - 1) : IsInvoke(trace[c][j])
        /\ Failures(c) = 3 =>
              /\ Invocations(c) = 3
              /\ Len(Delays(c)) = 2
              /\ pc[c] = "raised"
              /\ IsFailureLog(trace[c][Len(trace[c])])
        /\ pc[c] \in {"awaiting", "sleeping", "returned", "raised"} =>
              Invocations(c) >= 1
        /\ fn[c] = "safe_fetch" => MethodCalls(c) = Invocations(c)
        /\ fn[c] = "send_telegram_message" => SendCalls(c) <= Invocations(c)

C1_Witness ==
    \E c \in Calls : Failures(c) = 3 /\ pc[c] = "raised" /\ Len(Delays(c)) = 2

------------------------------------------------------------------------------
(* C2 *)

\* C2: when all 3 attempts fail, the error the caller gets is the error the
\* third attempt raised, not wrapped in another error type.
C2_SameErrorSurfaced ==
    \A c \in Calls :
        pc[c] = "raised" =>
            /\ outcome[c].kind = "raise"
            /\ outcome[c].exc = LastError(c)

------------------------------------------------------------------------------
(* C3 *)

\* C3: when the retries of send_telegram_message are exhausted the call
\* returns to its caller without raising.
C3_ExhaustionNotRaised ==
    \A c \in Calls :
        (fn[c] = "send_telegram_message" /\ Failures(c) = 3) =>
            (pc[c] = "returned" /\ outcome[c].kind = "return")

------------------------------------------------------------------------------
(* C4 *)

\* C4: if the method wrapped by safe_fetch first succeeds on attempt k
\* (1 <= k <= 3) it is called exactly k times, there are exactly k-1
\* backoff delays, nothing follows the successful attempt, and safe_fetch
\* returns that attempt's result unchanged.
C4_SuccessOnAttemptK ==
    \A c \in Calls :
        \A i \in DOMAIN trace[c] :
            (fn[c] = "safe_fetch" /\ trace[c][i].ev = "result") =>
                LET k == Failures(c) + 1 IN
                /\ k \in 1..3
                /\ MethodCalls(c) = k
                /\ Invocations(c) = k
                /\ Len(Delays(c)) = k - 1
                /\ i = Len(trace[c])
                /\ pc[c] = "returned"
                /\ outcome[c].kind = "return"
                /\ outcome[c].value = trace[c][i].msg

C4_Witness ==
    \E c \in Calls :
        /\ fn[c] = "safe_fetch"
        /\ pc[c] = "returned"
        /\ Failures(c) = 2
        /\ outcome[c].value = "r2"

------------------------------------------------------------------------------
(* C5 *)

\* C5: if TELEGRAM_BOT_TOKEN or TELEGRAM_CHAT_ID is absent, a call of
\* send_telegram_message never calls bot.send_message, logs an error about
\* the missing configuration, returns without raising and is not retried:
\* the body runs exactly once and there is no backoff delay.
C5_NotConfiguredNoSend ==
    \A c \in Calls :
        (fn[c] = "send_telegram_message"
         /\ (TELEGRAM_BOT_TOKEN = "" \/ TELEGRAM_CHAT_ID = "")) =>
            /\ sends[c] = << >>
            /\ SendCalls(c) = 0
            /\ Len(Delays(c)) = 0
            /\ outcome[c].kind # "raise"
            /\ pc[c] \in {"unused", "attempt", "returned"}
            /\ pc[c] = "returned" =>
                  /\ trace[c] = <<EvInvoke(1), EvLog("ERROR", "not_configured", 1)>>
                  /\ outcome[c] = Returned("None")

C5_Witness ==
    \E c \in Calls :
        /\ fn[c] = "send_telegram_message"
        /\ TELEGRAM_BOT_TOKEN = "tok"
        /\ TELEGRAM_CHAT_ID = ""
        /\ pc[c] = "returned"
        /\ ErrorLogs(c) = 1

------------------------------------------------------------------------------
(* C6 *)

\* C6: for every rendered message of length L handed to the transport: if
\* L <= 4000 the text sent is the rendered text unchanged; if L > 4000 the
\* text sent is the first 4000 characters of the rendered text followed by
\* "..." (length 4003); L = 4000 is not truncated.
C6_SizePolicy ==
    \A c \in Calls :
        \A i \in DOMAIN sends[c] :
            LET r == <<"*">> \o title[c] \o <<"*", "\n", "\n">> \o content[c]
                t == sends[c][i].text
            IN /\ Len(r) <= 4000 => t = r
               /\ Len(r) > 4000 =>
                     /\ Len(t) = 4003
                     /\ \A j \in 1..4000 : t[j] = r[j]
                     /\ <<t[4001], t[4002], t[4003]>> = <<".", ".", ".">>

\* a message one character over the threshold has been sent
C6_Witness ==
    \E c \in Calls :
        /\ Len(sends[c]) > 0
        /\ Len(title[c]) + Len(content[c]) + 4 = 4001
        /\ Len(sends[c][1].text) = 4003

\* a message of exactly 4000 characters has been sent
C6_WitnessBoundary ==
    \E c \in Calls :
        /\ Len(sends[c]) > 0
        /\ Len(title[c]) + Len(content[c]) + 4 = 4000
        /\ Len(sends[c][1].text) = 4000

------------------------------------------------------------------------------
(* C7 *)

Oversized(c) == Len(title[c]) + Len(content[c]) + 4 > 4000

------------------------------------------------------------------------------
(* C8 *)

\* C8: within one call of send_telegram_message every delivery attempt
\* passes the identical text and the same chat id to bot.send_message.
C8_SamePayloadEveryAttempt ==
    \A c \in Calls :
        \A i, j \in DOMAIN sends[c] :
            /\ sends[c][i].text = sends[c][j].text
            /\ sends[c][i].chat_id = sends[c][j].chat_id

C8_Witness ==
    \E c \in Calls : Len(sends[c]) = 3 /\ sends[c][1].text = sends[c][3].text

------------------------------------------------------------------------------
(* C9 *)

\* C9: with base_delay 2, max_delay 10, multiplier 1, max_attempts 3 the
\* delay between attempt i and attempt i+1 is
\* min(max_delay, base_delay * multiplier^(i-1)), that is 2 seconds after
\* the first and after the second failed attempt, and no delay exceeds 10.
C9_BackoffDelays ==
    \A c \in Calls :
        \A i \in DOMAIN Delays(c) :
            /\ Delays(c)[i].n = Min2(10, 2 * Pow(1, i - 1))
            /\ Delays(c)[i].n = 2
            /\ Delays(c)[i].n <= 10

C9_Witness ==
    \E c \in Calls : Len(Delays(c)) = 2 /\ Delays(c)[2].n = 2

------------------------------------------------------------------------------
(* C10 *)

\* C10: every failed attempt of safe_fetch and of send_telegram_message
\* emits exactly one error-level log entry, before the backoff sleep that
\* follows the attempt; a send_telegram_message call whose transport fails
\* twice and then succeeds makes 3 transport calls, logs 2 failures, sleeps
\* twice and logs 1 success.
C10_FailureLoggedBeforeSleep ==
    \A c \in Calls :
        /\ \A i \in DOMAIN trace[c] :
              IsErrorEv(trace[c][i]) =>
                  /\ i + 1 <= Len(trace[c])
                  /\ IsErrorLog(trace[c][i + 1])
                  /\ i + 2 <= Len(trace[c]) => ~IsErrorLog(trace[c][i + 2])
        /\ \A i \in DOMAIN trace[c] :
              IsSleep(trace[c][i]) =>
                  /\ i > 2
                  /\ IsErrorLog(trace[c][i - 1])
                  /\ IsErrorEv(trace[c][i - 2])
        /\ ErrorLogs(c) =
              Failures(c) + Count(trace[c], LAMBDA e : e.msg = "not_configured")
        /\ (fn[c] = "send_telegram_message" /\ pc[c] = "returned"
            /\ Failures(c) = 2) =>
              /\ SendCalls(c) = 3
              /\ Len(sends[c]) = 3
              /\ ErrorLogs(c) = 2
              /\ Len(Delays(c)) = 2
              /\ SuccessLogs(c) = 1

C10_Witness ==
    \E c \in Calls :
        /\ fn[c] = "send_telegram_message"
        /\ pc[c] = "returned"
        /\ Failures(c) = 2
        /\ SuccessLogs(c) = 1

------------------------------------------------------------------------------
(* C11 *)

IsAwaitCancel(e) == e.ev = "cancel" /\ e.msg = "await"
IsNotConfiguredLog(e) == e.ev = "log" /\ e.msg = "not_configured"

\* attempts of call c that have been entered and have not ended yet
InFlight(c) ==
    Invocations(c) - Count(trace[c], IsErrorEv) - Count(trace[c], IsResultEv)
                   - Count(trace[c], IsAwaitCancel)
                   - Count(trace[c], IsNotConfiguredLog)

\* C11: the attempts of one call are strictly sequential: attempt k+1 is
\* entered only after attempt k has ended with a failure and the backoff
\* delay that follows it has elapsed, and at most one attempt of a call is
\* in flight at any time.
C11_SequentialAttempts ==
    \A c \in Calls :
        /\ InFlight(c) \in {0, 1}
        /\ InFlight(c) = 1 <=> pc[c] = "awaiting"
        /\ \A i \in DOMAIN trace[c] :
              IsInvoke(trace[c][i]) =>
                  LET k == trace[c][i].n IN
                  /\ k = Count(SubSeq(trace[c], 1, i), IsInvoke)
                  /\ k = 1 => i = 1
                  /\ k > 1 =>
                        /\ i > 4
                        /\ IsWake(trace[c][i - 1])
                        /\ IsSleep(trace[c][i - 2])
                        /\ IsErrorLog(trace[c][i - 3])
                        /\ IsErrorEv(trace[c][i - 4])
                        /\ trace[c][i - 4].n = k - 1

C11_Witness ==
    \E c \in Calls :
        Invocations(c) = 3 /\ InFlight(c) = 1 /\ Count(trace[c], IsWake) = 2

------------------------------------------------------------------------------
(* C12 *)

\* everything call c owns
CallState(c) ==
    <<pc[c], attempt_number[c], full_message[c], sends[c], trace[c], outcome[c]>>

\* the attempt counter a call must have after its own failures
OwnAttemptNumber(c) == Min2(Failures(c) + 1, 3)

\* the state of call c is what its own history alone determines
OwnBudget(c) ==
    /\ attempt_number[c] = OwnAttemptNumber(c)
    /\ Invocations(c) <= 3
    /\ Len(Delays(c)) = Min2(Failures(c), 2)
    /\ \A i \in DOMAIN Delays(c) : Delays(c)[i].n = 2
    /\ pc[c] = "raised" <=> Failures(c) = 3
    /\ pc[c] = "raised" => (Invocations(c) = 3 /\ outcome[c].last = LastError(c))
    /\ pc[c] = "returned" =>
          (outcome[c].kind = "return" /\ Invocations(c) = Failures(c) + 1)

\* C12: two concurrent calls of the retry-wrapped functions are independent
\* under every interleaving: each has its own attempt counter and backoff
\* state and its full budget of 3 attempts, and a step of one call (failure,
\* retry, success) changes nothing of the other call.
C12_ConcurrentCallsIndependent ==
    /\ [](\A c \in Calls : OwnBudget(c))
    /\ [][\A c, d \in Calls :
             (c # d /\ CallState(c)' # CallState(c)) => CallState(d)' = CallState(d)]_vars

\* one call is exhausted while the other is in its first backoff delay
C12_Witness ==
    /\ pc[1] = "raised"
    /\ Failures(1) = 3
    /\ pc[2] = "sleeping"
    /\ attempt_number[2] = 2

------------------------------------------------------------------------------
(* C13 *)

\* C13: if a call is cancelled while it waits in a backoff delay or awaits
\* the wrapped operation, no further attempt is made and the cancellation
\* reaches the caller as itself, a kind distinct from a transport failure
\* and from retry exhaustion; it is not logged and not retried.
C13_CancellationPropagates ==
    \A c \in Calls :
        /\ \A i \in DOMAIN trace[c] :
              IsCancel(trace[c][i]) =>
                  /\ i = Len(trace[c])
                  /\ pc[c] = "cancelled"
                  /\ outcome[c].kind = "raise"
                  /\ outcome[c].exc = "CancelledError"
                  /\ outcome[c].exc \notin {"RetryError", "NetworkError", "RuntimeError"}
                  /\ ErrorLogs(c) = Failures(c)
                  /\ Len(Delays(c)) = Failures(c)
        /\ pc[c] = "cancelled" => IsCancel(trace[c][Len(trace[c])])

\* cancelled in the backoff delay after the first failed attempt
C13_Witness ==
    \E c \in Calls :
        /\ pc[c] = "cancelled"
        /\ Failures(c) = 1
        /\ trace[c][Len(trace[c])].msg = "sleep"
        /\ Invocations(c) = 1

\* cancelled while the wrapped operation is awaited
C13_WitnessAwait ==
    \E c \in Calls :
        /\ pc[c] = "cancelled"
        /\ trace[c][Len(trace[c])].msg = "await"
        /\ Invocations(c) = 2

------------------------------------------------------------------------------
(* C14 *)

\* C14: in send_telegram_message a TelegramError and any other Exception
\* raised by an attempt are both logged at error severity, both raised again
\* to the retry loop and both retried up to the same bound of 3 attempts
\* with the same delays; only the log entry differs.
C14_UniformRetry ==
    \A c \in Calls :
        fn[c] = "send_telegram_message" =>
            \A i \in DOMAIN trace[c] :
                IsErrorEv(trace[c][i]) =>
                    LET e == trace[c][i].msg
                        k == trace[c][i].n
                    IN /\ i + 1 <= Len(trace[c])
                       /\ trace[c][i + 1] =
                             [ev |-> "log", level |-> "ERROR",
                              msg |-> IF e = "NetworkError" THEN "telegram_failed"
                                      ELSE "unknown_error",
                              n |-> k]
                       /\ k < 3 =>
                             /\ i + 2 <= Len(trace[c])
                             /\ trace[c][i + 2].ev = "sleep"
                             /\ trace[c][i + 2].n = 2
                       /\ k = 3 =>
                             /\ i + 1 = Len(trace[c])
                             /\ pc[c] = "raised"
                             /\ outcome[c].exc = "RetryError"
                             /\ outcome[c].last = e

\* a TelegramError, then another error, then a TelegramError: all retried
C14_Witness ==
    \E c \in Calls :
        /\ fn[c] = "send_telegram_message"
        /\ pc[c] = "raised"
        /\ SelectSeq(trace[c], IsErrorEv) =
              <<EvError("NetworkError", 1), EvError("RuntimeError", 2),
                EvError("NetworkError", 3)>>

------------------------------------------------------------------------------
(* C15 *)

\* C15: a call of send_telegram_message logs the success message exactly
\* once if and only if a transport send of the call succeeded, and only
\* after that send returned; a call that ends by exhaustion or by the
\* missing-configuration guard logs no success; a call whose first send
\* succeeds makes exactly 1 transport call with 0 backoff delays.
C15_SuccessLog ==
    \A c \in Calls :
        fn[c] = "send_telegram_message" =>
            /\ SuccessLogs(c) = Count(trace[c], IsResultEv)
            /\ SuccessLogs(c) <= 1
            /\ \A i \in DOMAIN trace[c] :
                  IsSuccessLog(trace[c][i]) =>
                      /\ i > 1
                      /\ IsResultEv(trace[c][i - 1])
                      /\ \E j \in 1..(i - 1) : IsSend(trace[c][j])
            /\ pc[c] = "raised" => SuccessLogs(c) = 0
            /\ (TELEGRAM_BOT_TOKEN = "" \/ TELEGRAM_CHAT_ID = "") => SuccessLogs(c) = 0
            /\ (pc[c] = "returned" /\ TELEGRAM_BOT_TOKEN # "" /\ TELEGRAM_CHAT_ID # "") =>
                  SuccessLogs(c) = 1
            /\ (pc[c] = "returned" /\ SuccessLogs(c) = 1 /\ Failures(c) = 0) =>
                  (SendCalls(c) = 1 /\ Len(Delays(c)) = 0)

C15_Witness ==
    \E c \in Calls :
        /\ fn[c] = "send_telegram_message"
        /\ pc[c] = "returned"
        /\ SuccessLogs(c) = 1
        /\ SendCalls(c) = 1
        /\ title[c] = <<"J", "Y", "T", "Z">>

------------------------------------------------------------------------------
(* C16 *)

\* C16: setup_logger is idempotent on the handlers of the root logger:
\* after any number of calls, and whatever handlers were installed before,
\* the root logger has exactly two handlers, one timed-rotating file
\* handler and one console handler, and its level is LogConfig.LOG_LEVEL.
C16_SetupLoggerIdempotent ==
    log_last = "setup_logger" =>
        /\ Len(handlers) = 2
        /\ handlers[1].cls = "TimedRotatingFileHandler"
        /\ handlers[1].backupCount = 2
        /\ handlers[2].cls = "StreamHandler"
        /\ handlers[1].id = next_id - 2
        /\ handlers[2].id = next_id - 1
        /\ level = 20

\* the second call of setup_logger, made when other code had installed
\* handlers of its own
C16_Witness ==
    /\ log_last = "setup_logger"
    /\ setup_calls = 2
    /\ next_id = 7
    /\ Len(handlers) = 2

------------------------------------------------------------------------------
(* C17 *)

\* C17: with SINGLE_LOG = True clean_old_logs leaves every file other than
\* trading_system.log unchanged, removes trading_system.log only when its
\* modification time is older than BACKUP_DAYS * 86400 seconds before now,
\* does nothing when LOG_DIR does not exist, and a failed removal is
\* reported and does not stop or fail the call.
C17_CleanOldLogs ==
    /\ \A n \in FileNames : n # "trading_system.log" => files[n] = files0[n]
    /\ files["trading_system.log"] # files0["trading_system.log"] =>
          /\ files["trading_system.log"] = Absent
          /\ files0["trading_system.log"] < now - 2 * 86400
          /\ now = ClockNow
    /\ ~dir_exists =>
          /\ files = files0
          /\ printed = << >>
          /\ todo = << >>
          /\ clean_pc \in {"start", "returned"}
    /\ \A i \in DOMAIN printed :
          /\ printed[i] = "trading_system.log"
          /\ files["trading_system.log"] = files0["trading_system.log"]
    /\ Len(printed) <= 1
    /\ (clean_pc = "returned" /\ dir_exists) =>
          IF files0["trading_system.log"] # Absent
             /\ files0["trading_system.log"] < ClockNow - 2 * 86400
          THEN \/ files["trading_system.log"] = Absent /\ printed = << >>
               \/ printed = <<"trading_system.log">>
          ELSE files = files0 /\ printed = << >>

\* the old log has been removed, an equally old backup and another file stay
C17_Witness ==
    /\ clean_pc = "returned"
    /\ files0["trading_system.log"] = ClockNow - 2 * 86400 - 1
    /\ files["trading_system.log"] = Absent
    /\ files["trading_system.log.2025-01-01"] = ClockNow - 2 * 86400 - 1
    /\ files["main.py"] = ClockNow - 2 * 86400 - 1

\* the removal failed, was reported, and the call returned
C17_WitnessFailure ==
    /\ clean_pc = "returned"
    /\ printed = <<"trading_system.log">>
    /\ files = files0

------------------------------------------------------------------------------
(* C18 *)

\* the events of call j of the wrapper
WSegment(j) == SubSeq(w_trace, 4 * (j - 1) + 1, Min2(4 * j, Len(w_trace)))

\* C18: a coroutine wrapped by debug_watcher is called exactly once per call
\* of the wrapper, its result is returned unchanged on success and its
\* exception goes on unchanged on failure, and in both cases the start debug
\* log precedes the call and exactly one completion debug log follows it.
C18_DebugWatcher ==
    /\ Len(w_trace) = 4 * w_calls - (IF w_pc = "awaiting" THEN 2 ELSE 0)
    /\ Len(SelectSeq(w_trace, LAMBDA e : e.ev = "func")) = w_calls
    /\ \A j \in 1..w_calls :
          LET seg == WSegment(j) IN
          /\ seg[1].ev = "debug_start"
          /\ seg[2].ev = "func"
          /\ Len(seg) = 4 =>
                /\ seg[3].ev \in {"result", "error"}
                /\ seg[4].ev = "debug_done"
                /\ seg[4].cost >= 0
    /\ (w_pc = "idle" /\ w_calls > 0) =>
          LET last == WSegment(w_calls)[3] IN
          /\ last.ev = "result" =>
                (w_outcome.kind = "return" /\ w_outcome.value = last.msg)
          /\ last.ev = "error" =>
                (w_outcome.kind = "raise" /\ w_outcome.exc = last.msg)
    /\ w_pc = "awaiting" => w_outcome.kind = "pending"

\* func raised in the second call of the wrapper
C18_Witness ==
    /\ w_pc = "idle"
    /\ w_calls = 2
    /\ w_outcome.kind = "raise"
    /\ w_outcome.exc = "RuntimeError"
    /\ w_trace[Len(w_trace)].ev = "debug_done"

====
